---- MODULE Spec2Model ----
(***************************************************************************)
(* Batch normalization "from scratch" (P03-C05-mlp-batch-norm-scratch):    *)
(* pure_batch_norm, batch_norm with its global moving statistics, the      *)
(* two-hidden-layer net, evaluate_accuracy and the training loop.          *)
(*                                                                         *)
(* Numbers.  An NDArray element is modelled as a real number held exactly: *)
(* a rational is the tuple <<"q", n, d>> in lowest terms with d > 0, and a *)
(* value the rationals cannot hold (nd.sqrt, and what is computed from it) *)
(* is the expression that produces it, <<"sqrt", v>>, <<"div", a, b>>, ... *)
(* So is a rational whose numerator or denominator would pass Limit.       *)
(* Two equal expressions denote the same real.  Floating-point rounding is *)
(* not modelled.                                                           *)
(***************************************************************************)
EXTENDS Integers, Sequences, FiniteSets, TLC

VARIABLES
    defined,      \* whether the globals moving_mean, moving_var exist yet
    moving_mean,  \* global dict: scope_name -> vector
    moving_var,   \* global dict: scope_name -> vector
    call,         \* the last call made from a cell: its arguments and result
    blended,      \* per scope_name, the completed calls: <<is_training, batch mean>>
    count,        \* per scope_name, the number of completed batch_norm calls
    ncalls,       \* number of calls made so far
    pc,           \* position of the training-loop cell
    phase,        \* the pass under way: "train", "eval_test" or "eval_train"
    e,            \* epoch counter of the training loop
    i,            \* batch index within the current pass
    params,       \* the network parameters W1 .. b3
    h1,           \* net: first hidden layer of the call under way
    output,       \* the last value returned by net
    moving_loss,  \* moving average of the losses
    numerator,    \* evaluate_accuracy: accumulator of correct predictions
    denominator,  \* evaluate_accuracy: accumulator of examples seen
    test_accuracy,
    train_accuracy

bnvars == <<defined, moving_mean, moving_var, blended, count>>
cellvars == <<call, ncalls>>
loopvars == <<pc, phase, e, i, params, h1, output, moving_loss,
              numerator, denominator, test_accuracy, train_accuracy>>
vars == <<defined, moving_mean, moving_var, blended, count, call, ncalls, pc,
          phase, e, i, params, h1, output, moving_loss, numerator,
          denominator, test_accuracy, train_accuracy>>

----------------------------------------------------------------------------
(* Exact rational arithmetic.                                              *)

Abs(x) == IF x < 0 THEN -x ELSE x

RECURSIVE Gcd(_, _)
Gcd(a, b) == IF b = 0 THEN a ELSE Gcd(b, a % b)

Q(n, d) ==
    LET g == Gcd(Abs(n), Abs(d))
        s == IF d < 0 THEN -1 ELSE 1
    IN  <<"q", s * (n \div g), s * (d \div g)>>

IsQ(v) == v[1] = "q"

Zero == Q(0, 1)
One == Q(1, 1)

QAdd(a, b) ==
    LET g == Gcd(a[3], b[3])
        la == b[3] \div g
        lb == a[3] \div g
    IN  Q(a[2] * la + b[2] * lb, a[3] * la)

QNeg(a) == <<"q", -a[2], a[3]>>

QSub(a, b) == QAdd(a, QNeg(b))

QMul(a, b) ==
    LET g1 == Gcd(Abs(a[2]), b[3])
        g2 == Gcd(Abs(b[2]), a[3])
    IN  Q((a[2] \div g1) * (b[2] \div g2), (a[3] \div g2) * (b[3] \div g1))

QInv(a) == Q(a[3], a[2])

QDiv(a, b) == QMul(a, QInv(b))

\* a/b < c/d for a, c >= 0 and b, d > 0, by the continued-fraction expansion
\* (no product is formed, so nothing overflows).
RECURSIVE CfLess(_, _, _, _)
CfLess(a, b, c, d) ==
    IF a \div b # c \div d THEN a \div b < c \div d
    ELSE IF a % b = 0 THEN c % d > 0
    ELSE IF c % d = 0 THEN FALSE
    ELSE CfLess(d, c % d, b, a % b)

QLess(a, b) ==
    IF a[2] < 0 /\ b[2] >= 0 THEN TRUE
    ELSE IF a[2] >= 0 /\ b[2] < 0 THEN FALSE
    ELSE IF a[2] >= 0 THEN CfLess(a[2], a[3], b[2], b[3])
    ELSE CfLess(-b[2], b[3], -a[2], a[3])

QLeq(a, b) == a = b \/ QLess(a, b)

\* The largest numerator and denominator a rational is held with.
Limit == 2 ^ 29

\* x * y stays within Limit
Small(x, y) == x = 0 \/ y = 0 \/ Abs(x) <= Limit \div Abs(y)

\* QAdd(a, b) and QMul(a, b) form no number beyond Limit
AddFits(a, b) ==
    LET g == Gcd(a[3], b[3])
    IN  /\ Small(a[3], b[3] \div g)
        /\ Small(a[2], b[3] \div g)
        /\ Small(b[2], a[3] \div g)

MulFits(a, b) ==
    LET g1 == Gcd(Abs(a[2]), b[3])
        g2 == Gcd(Abs(b[2]), a[3])
    IN  /\ Small(a[2] \div g1, b[2] \div g2)
        /\ Small(a[3] \div g2, b[3] \div g1)

----------------------------------------------------------------------------
(* NDArray element operations.                                             *)

VAdd(a, b) ==
    IF IsQ(a) /\ IsQ(b) /\ AddFits(a, b) THEN QAdd(a, b) ELSE <<"add", a, b>>
VSub(a, b) ==
    IF IsQ(a) /\ IsQ(b) /\ AddFits(a, b) THEN QSub(a, b) ELSE <<"sub", a, b>>
VMul(a, b) ==
    IF IsQ(a) /\ IsQ(b) /\ MulFits(a, b) THEN QMul(a, b) ELSE <<"mul", a, b>>
VDiv(a, b) ==
    IF IsQ(a) /\ IsQ(b) /\ b[2] # 0 /\ MulFits(a, QInv(b))
    THEN QDiv(a, b) ELSE <<"div", a, b>>
VSq(a) == IF IsQ(a) /\ MulFits(a, a) THEN QMul(a, a) ELSE <<"sq", a>>
VSqrt(a) == <<"sqrt", a>>
VMax0(a) == IF IsQ(a) THEN (IF a[2] < 0 THEN Zero ELSE a) ELSE <<"max0", a>>

RECURSIVE VSum(_)
VSum(s) == IF Len(s) = 1 THEN s[1] ELSE VAdd(VSum(SubSeq(s, 1, Len(s) - 1)), s[Len(s)])

\* A sequence given by a rule, held as the tuple of its elements.
Seal(f) == SubSeq(f, 1, Len(f))

Rows(X) == 1 .. Len(X)
Cols(X) == 1 .. Len(X[1])

Column(X, j) == Seal([r \in Rows(X) |-> X[r][j]])

\* nd.mean(X, axis=0)
NdMean(X) == Seal([j \in Cols(X) |-> VDiv(VSum(Column(X, j)), Q(Len(X), 1))])

\* X - v, the vector v broadcast over the rows
SubRow(X, v) == Seal([r \in Rows(X) |-> Seal([j \in Cols(X) |-> VSub(X[r][j], v[j])])])

\* (X - mean) ** 2
Square(X) == Seal([r \in Rows(X) |-> Seal([j \in Cols(X) |-> VSq(X[r][j])])])

\* A variant of BatchVar: the sample variance, dividing by m - 1.
BatchVar_sample(X, mean) ==
    Seal([j \in Cols(X) |->
        VDiv(VSum(Column(Square(SubRow(X, mean)), j)), Q(Len(X) - 1, 1))])

\* mini-batch variance: nd.mean((X - mean) ** 2, axis=0)
BatchVar(X, mean) == NdMean(Square(SubRow(X, mean)))

\* (X - mean) / nd.sqrt(variance + eps)
Normalize(X, mean, variance, eps) ==
    Seal([r \in Rows(X) |-> Seal([j \in Cols(X) |->
        VDiv(VSub(X[r][j], mean[j]), VSqrt(VAdd(variance[j], eps)))])])

\* gamma * X_hat + beta
ScaleShift(X_hat, gamma, beta) ==
    Seal([r \in Rows(X_hat) |-> Seal([j \in Cols(X_hat) |->
        VAdd(VMul(gamma[j], X_hat[r][j]), beta[j])])])

\* vector * scalar and vector + vector
VecScale(v, c) == Seal([j \in 1 .. Len(v) |-> VMul(v[j], c)])
VecAdd(u, v) == Seal([j \in 1 .. Len(u) |-> VAdd(u[j], v[j])])

----------------------------------------------------------------------------
(* pure_batch_norm                                                         *)

pure_batch_norm(X, gamma, beta, eps) ==
    LET mu == NdMean(X)
        variance == BatchVar(X, mu)
        X_hat == Seal([r \in Rows(X) |-> Seal([j \in Cols(X) |->
                     VDiv(VMul(VSub(X[r][j], mu[j]), One),
                          VSqrt(VAdd(variance[j], eps)))])])
    IN  ScaleShift(X_hat, gamma, beta)

----------------------------------------------------------------------------
(* batch_norm and the global moving statistics.                            *)

\* Variants of NormStats: one that normalizes with the mini-batch statistics
\* while testing too, one that falls back to them when the stored ones are
\* missing, one that prefers the stored ones while training.
NormStats_batch(is_training, mean, variance, scope_name) ==
    IF is_training THEN <<"ok", mean, variance>>
    ELSE IF ~defined THEN <<"NameError">>
    ELSE IF scope_name \notin DOMAIN moving_mean THEN <<"KeyError">>
    ELSE IF scope_name \notin DOMAIN moving_var THEN <<"KeyError">>
    ELSE <<"ok", mean, variance>>

NormStats_fallback(is_training, mean, variance, scope_name) ==
    IF is_training THEN <<"ok", mean, variance>>
    ELSE IF ~defined THEN <<"ok", mean, variance>>
    ELSE IF scope_name \notin DOMAIN moving_mean THEN <<"ok", mean, variance>>
    ELSE IF scope_name \notin DOMAIN moving_var THEN <<"ok", mean, variance>>
    ELSE <<"ok", moving_mean[scope_name], moving_var[scope_name]>>

NormStats_stored(is_training, mean, variance, scope_name) ==
    IF defined /\ scope_name \in DOMAIN moving_mean /\ scope_name \in DOMAIN moving_var
    THEN <<"ok", moving_mean[scope_name], moving_var[scope_name]>>
    ELSE IF is_training THEN <<"ok", mean, variance>>
    ELSE IF ~defined THEN <<"NameError">>
    ELSE <<"KeyError">>

\* The mean and variance X is normalized with, <<"ok", mean, variance>>: those
\* of the mini-batch while training, the stored ones while testing.  The
\* testing branch reads the globals, and raises NameError when they do not
\* exist yet and KeyError when they hold no entry for scope_name.
NormStats(is_training, mean, variance, scope_name) ==
    IF is_training THEN <<"ok", mean, variance>>
    ELSE IF ~defined THEN <<"NameError">>
    ELSE IF scope_name \notin DOMAIN moving_mean THEN <<"KeyError">>
    ELSE IF scope_name \notin DOMAIN moving_var THEN <<"KeyError">>
    ELSE <<"ok", moving_mean[scope_name], moving_var[scope_name]>>

\* Variants of Blend: the two weights exchanged; the weight of stat left out.
Blend_swapped(moving, stat, momentum) ==
    VecAdd(VecScale(moving, VSub(One, momentum)), VecScale(stat, momentum))

Blend_unweighted(moving, stat, momentum) ==
    VecAdd(VecScale(moving, momentum), stat)

\* moving * momentum + stat * (1.0 - momentum)
Blend(moving, stat, momentum) ==
    VecAdd(VecScale(moving, momentum), VecScale(stat, VSub(One, momentum)))

\* Variants of Upsert: the first call blends stat into zero instead of storing
\* it; every entry of the dict is written, not that of scope_name alone.
Upsert_blendseed(d, scope_name, stat, momentum) ==
    IF scope_name \notin DOMAIN d
    THEN [k \in DOMAIN d \cup {scope_name} |->
             IF k = scope_name THEN VecScale(stat, VSub(One, momentum)) ELSE d[k]]
    ELSE [d EXCEPT ![scope_name] = Blend(d[scope_name], stat, momentum)]

Upsert_all(d, scope_name, stat, momentum) ==
    IF scope_name \notin DOMAIN d
    THEN [k \in DOMAIN d \cup {scope_name} |-> stat]
    ELSE [k \in DOMAIN d |-> Blend(d[k], stat, momentum)]

\* "store the moving statistics by their scope_names, inplace", one dict
Upsert(d, scope_name, stat, momentum) ==
    IF scope_name \notin DOMAIN d
    THEN [k \in DOMAIN d \cup {scope_name} |-> IF k = scope_name THEN stat ELSE d[k]]
    ELSE [d EXCEPT ![scope_name] = Blend(d[scope_name], stat, momentum)]

\* The whole of batch_norm: the value returned (or the exception raised) and
\* the globals it leaves behind.
batch_norm(X, gamma, beta, momentum, eps, scope_name, is_training) ==
    LET mean == NdMean(X)
        variance == BatchVar(X, mean)
        used == NormStats(is_training, mean, variance, scope_name)
    IN  IF used[1] # "ok"
        THEN [status |-> used[1], out |-> <<>>, mean |-> mean,
              defined |-> defined, moving_mean |-> moving_mean,
              moving_var |-> moving_var]
        ELSE [status |-> "ok",
              out |-> ScaleShift(Normalize(X, used[2], used[3], eps), gamma, beta),
              mean |-> mean,
              defined |-> TRUE,
              moving_mean |-> Upsert(moving_mean, scope_name, mean, momentum),
              moving_var |-> Upsert(moving_var, scope_name, variance, momentum)]

\* The effect of a batch_norm call on the globals (none when it raised).
Commit(r, scope_name, is_training) ==
    /\ defined' = r.defined
    /\ moving_mean' = r.moving_mean
    /\ moving_var' = r.moving_var
    /\ blended' = IF r.status = "ok"
                  THEN [blended EXCEPT ![scope_name] = @ \cup {<<is_training, r.mean>>}]
                  ELSE blended
    /\ count' = IF r.status = "ok"
                THEN [count EXCEPT ![scope_name] = @ + 1]
                ELSE count

----------------------------------------------------------------------------
(* The inputs of the calls made from a cell.                               *)

MaxCalls == 3

Mat(M) == Seal([r \in 1 .. Len(M) |-> Seal([j \in 1 .. Len(M[1]) |-> Q(M[r][j], 1)])])

A == Mat(<<<<1, 7>>, <<5, 4>>, <<6, 10>>>>)

Batches == {A, Mat(<<<<2, 0>>, <<2, 4>>>>)}

\* the defaults of batch_norm: momentum = 0.9, eps = 1e-5
DefaultMomentum == Q(9, 10)
DefaultEps == Q(1, 100000)

Ones == <<One, One>>
Zeros == <<Zero, Zero>>

\* gamma, beta and eps of a call
Affines == {<<Ones, Zeros, DefaultEps>>,
            <<<<Q(2, 1), Q(1, 2)>>, <<Q(1, 1), Q(-1, 1)>>, Q(1, 4)>>}

Momenta == {Zero, DefaultMomentum, One}

Scopes == {"bn1", "bn2"}

NoCall ==
    [fn |-> "none", X |-> <<>>, gamma |-> <<>>, beta |-> <<>>, momentum |-> Zero,
     eps |-> Zero, scope_name |-> "", is_training |-> FALSE, status |-> "none",
     out |-> <<>>]

----------------------------------------------------------------------------
(* The network, its parameters and the data.                               *)

\* nd.dot(X, W)
Dot(X, W) ==
    Seal([r \in Rows(X) |-> Seal([k \in Cols(W) |->
        VSum(Seal([c \in Cols(X) |-> VMul(X[r][c], W[c][k])]))])])

\* X + b, the vector b broadcast over the rows
AddRow(X, b) == Seal([r \in Rows(X) |-> Seal([k \in Cols(X) |-> VAdd(X[r][k], b[k])])])

\* nd.maximum(X, 0)
relu(X) == Seal([r \in Rows(X) |-> Seal([k \in Cols(X) |-> VMax0(X[r][k])])])

\* One draw of the parameters W1 .. b3, and the values an SGD step may leave
\* them at (the gradients are autograd's, not modelled).
Params0 ==
    [W1 |-> Mat(<<<<1, -1>>, <<2, 1>>>>), b1 |-> <<Q(0, 1), Q(1, 1)>>,
     gamma1 |-> <<Q(1, 1), Q(2, 1)>>, beta1 |-> <<Q(0, 1), Q(1, 2)>>,
     W2 |-> Mat(<<<<1>>, <<-1>>>>), b2 |-> <<Q(1, 2)>>,
     gamma2 |-> <<Q(1, 1)>>, beta2 |-> <<Q(0, 1)>>,
     W3 |-> Mat(<<<<1, -1>>>>), b3 |-> <<Q(0, 1), Q(1, 1)>>]

Params1 ==
    [W1 |-> Mat(<<<<1, 0>>, <<1, 2>>>>), b1 |-> <<Q(1, 2), Q(0, 1)>>,
     gamma1 |-> <<Q(3, 2), Q(1, 1)>>, beta1 |-> <<Q(1, 4), Q(0, 1)>>,
     W2 |-> Mat(<<<<2>>, <<1>>>>), b2 |-> <<Q(0, 1)>>,
     gamma2 |-> <<Q(1, 2)>>, beta2 |-> <<Q(1, 1)>>,
     W3 |-> Mat(<<<<-1, 2>>>>), b3 |-> <<Q(1, 1), Q(0, 1)>>]

ParamChoices == {Params0, Params1}

\* The batches the two data iterators yield.
train_data ==
    <<[data |-> Mat(<<<<1, 0>>, <<0, 1>>>>), label |-> <<Q(0, 1), Q(1, 1)>>],
      [data |-> Mat(<<<<2, 1>>, <<0, 3>>>>), label |-> <<Q(1, 1), Q(0, 1)>>]>>

test_data ==
    <<[data |-> Mat(<<<<1, 1>>, <<3, 0>>>>), label |-> <<Q(1, 1), Q(0, 1)>>],
      [data |-> Mat(<<<<0, 2>>>>), label |-> <<Q(1, 1)>>]>>

epochs == 2

\* softmax_cross_entropy(yhat_linear, y), nd.mean(loss).asscalar() and
\* nd.sum(nd.argmax(output, axis=1) == label), as expressions
softmax_cross_entropy(yhat_linear, label) ==
    <<"softmax_cross_entropy", yhat_linear, <<"one_hot", label>>>>
MeanLoss(loss) == <<"mean", loss>>
Correct(out, label) == <<"sum", <<"eq", <<"argmax", out>>, label>>>>

----------------------------------------------------------------------------
(* Init: a fresh kernel, before any cell has run.                          *)

Init ==
    /\ defined = FALSE
    /\ moving_mean = [k \in {} |-> <<>>]
    /\ moving_var = [k \in {} |-> <<>>]
    /\ blended = [k \in Scopes |-> {}]
    /\ count = [k \in Scopes |-> 0]
    /\ call = NoCall
    /\ ncalls = 0
    /\ pc = "net1"
    /\ phase = "train"
    /\ e = 0
    /\ i = 0
    /\ params = Params0
    /\ h1 = <<>>
    /\ output = <<>>
    /\ moving_loss = Zero
    /\ numerator = Zero
    /\ denominator = 0
    /\ test_accuracy = Zero
    /\ train_accuracy = Zero

----------------------------------------------------------------------------
(* Cells calling the two functions directly.                               *)

CallPureBatchNorm ==
    /\ ncalls < MaxCalls
    /\ \E X \in Batches, ab \in Affines :
          call' = [fn |-> "pure_batch_norm", X |-> X, gamma |-> ab[1],
                   beta |-> ab[2], momentum |-> Zero, eps |-> ab[3],
                   scope_name |-> "", is_training |-> TRUE, status |-> "ok",
                   out |-> pure_batch_norm(X, ab[1], ab[2], ab[3])]
    /\ ncalls' = ncalls + 1
    /\ UNCHANGED <<bnvars, loopvars>>

CallBatchNorm ==
    /\ ncalls < MaxCalls
    /\ \E X \in Batches, ab \in Affines, momentum \in Momenta,
          scope_name \in Scopes, is_training \in BOOLEAN :
          \E r \in {batch_norm(X, ab[1], ab[2], momentum, ab[3], scope_name, is_training)} :
              /\ call' = [fn |-> "batch_norm", X |-> X, gamma |-> ab[1],
                          beta |-> ab[2], momentum |-> momentum, eps |-> ab[3],
                          scope_name |-> scope_name, is_training |-> is_training,
                          status |-> r.status, out |-> r.out]
              /\ Commit(r, scope_name, is_training)
    /\ ncalls' = ncalls + 1
    /\ UNCHANGED loopvars

Next == CallPureBatchNorm \/ CallBatchNorm

Spec == Init /\ [][Next]_vars

----------------------------------------------------------------------------
(* The training-loop cell: net, SGD, evaluate_accuracy.                    *)

CurrentData == IF phase = "eval_test" THEN test_data ELSE train_data
IsTraining == phase = "train"

\* net, first hidden layer: h1 = relu(batch_norm(nd.dot(X, W1) + b1, ...))
NetLayer1 ==
    /\ pc = "net1"
    /\ \E r \in {batch_norm(AddRow(Dot(CurrentData[i + 1].data, params.W1), params.b1),
                             params.gamma1, params.beta1, DefaultMomentum,
                             DefaultEps, "bn1", IsTraining)} :
          /\ Commit(r, "bn1", IsTraining)
          /\ IF r.status = "ok"
             THEN h1' = relu(r.out) /\ pc' = "net2"
             ELSE h1' = h1 /\ pc' = r.status
    /\ UNCHANGED <<cellvars, phase, e, i, params, output, moving_loss, numerator,
                   denominator, test_accuracy, train_accuracy>>

\* net, second hidden layer and output layer
NetLayer2 ==
    /\ pc = "net2"
    /\ \E r \in {batch_norm(AddRow(Dot(h1, params.W2), params.b2),
                             params.gamma2, params.beta2, DefaultMomentum,
                             DefaultEps, "bn2", IsTraining)} :
          /\ Commit(r, "bn2", IsTraining)
          /\ IF r.status = "ok"
             THEN /\ output' = AddRow(Dot(relu(r.out), params.W3), params.b3)
                  /\ pc' = IF IsTraining THEN "sgd" ELSE "acc"
             ELSE output' = output /\ pc' = r.status
    /\ UNCHANGED <<cellvars, phase, e, i, params, h1, moving_loss, numerator,
                   denominator, test_accuracy, train_accuracy>>

\* The rest of one training iteration: the loss, loss.backward(), SGD and the
\* moving average of the losses; after the last batch, evaluate_accuracy on
\* test_data starts.
SGDStep ==
    /\ pc = "sgd"
    /\ \E p \in ParamChoices : params' = p
    /\ LET loss == softmax_cross_entropy(output, train_data[i + 1].label)
       IN  moving_loss' =
              IF i = 0 THEN MeanLoss(loss)
              ELSE VAdd(VMul(Q(99, 100), moving_loss), VMul(Q(1, 100), MeanLoss(loss)))
    /\ IF i + 1 < Len(train_data)
       THEN i' = i + 1 /\ UNCHANGED <<phase, numerator, denominator>>
       ELSE i' = 0 /\ phase' = "eval_test" /\ numerator' = Zero /\ denominator' = 0
    /\ pc' = "net1"
    /\ UNCHANGED <<bnvars, cellvars, e, h1, output, test_accuracy, train_accuracy>>

\* The rest of one evaluate_accuracy iteration; after the last batch the pass
\* returns numerator / denominator, and the next pass, the next epoch or the
\* end of the loop follows.
Accumulate ==
    /\ pc = "acc"
    /\ LET num == VAdd(numerator, Correct(output, CurrentData[i + 1].label))
           den == denominator + Len(CurrentData[i + 1].data)
       IN  IF i + 1 < Len(CurrentData)
           THEN /\ numerator' = num /\ denominator' = den /\ i' = i + 1
                /\ pc' = "net1"
                /\ UNCHANGED <<phase, e, test_accuracy, train_accuracy>>
           ELSE /\ numerator' = Zero /\ denominator' = 0 /\ i' = 0
                /\ IF phase = "eval_test"
                   THEN /\ test_accuracy' = VDiv(num, Q(den, 1))
                        /\ phase' = "eval_train" /\ pc' = "net1"
                        /\ UNCHANGED <<e, train_accuracy>>
                   ELSE /\ train_accuracy' = VDiv(num, Q(den, 1))
                        /\ phase' = "train" /\ e' = e + 1
                        /\ pc' = IF e + 1 < epochs THEN "net1" ELSE "done"
                        /\ UNCHANGED test_accuracy
    /\ UNCHANGED <<bnvars, cellvars, params, h1, output, moving_loss>>

NextLoop == NetLayer1 \/ NetLayer2 \/ SGDStep \/ Accumulate

SpecLoop == Init /\ [][NextLoop]_vars

----------------------------------------------------------------------------
(* Properties of batch_norm and pure_batch_norm, under Spec.               *)

\* The step is a call of batch_norm; call' holds its arguments and result.
IsCall == ncalls' = ncalls + 1 /\ call'.fn = "batch_norm"

\* A training-mode call under scope_name s has completed.
Seeded(s) == \E b \in blended[s] : b[1]

\* Column sums, computed row by row.
RECURSIVE SumCol(_, _, _)
SumCol(X, j, n) == IF n = 0 THEN Zero ELSE QAdd(SumCol(X, j, n - 1), X[n][j])

RECURSIVE SumSqCol(_, _, _)
SumSqCol(X, j, n) ==
    IF n = 0 THEN Zero ELSE QAdd(SumSqCol(X, j, n - 1), QMul(X[n][j], X[n][j]))

\* Per-column mean and population variance of a batch: E[x] and E[x^2] - E[x]^2.
ColMean(X, j) == QDiv(SumCol(X, j, Len(X)), Q(Len(X), 1))
PopVar(X, j) ==
    QSub(QDiv(SumSqCol(X, j, Len(X)), Q(Len(X), 1)), QMul(ColMean(X, j), ColMean(X, j)))

MeanVec(X) == Seal([j \in Cols(X) |-> ColMean(X, j)])
PopVarVec(X) == Seal([j \in Cols(X) |-> PopVar(X, j)])

\* m * a + (1 - m) * b
Mix(m, a, b) == QAdd(QMul(m, a), QMul(QSub(One, m), b))

\* C1 (as claimed): a call of batch_norm with is_training = False leaves
\* moving_mean and moving_var as they were, for every scope_name.
C1_InferenceOnlyReads ==
    [][(IsCall /\ ~call'.is_training)
          => (moving_mean' = moving_mean /\ moving_var' = moving_var)]_vars

\* C2: a testing-mode call under a scope_name that a training-mode call has
\* seeded completes, and returns gamma * (X - RunningMean) /
\* sqrt(RunningVar + eps) + beta with the running statistics stored before
\* the call.
C2_InferenceUsesRunningStats ==
    [][(IsCall /\ ~call'.is_training /\ Seeded(call'.scope_name))
          => /\ call'.status = "ok"
             /\ Len(call'.out) = Len(call'.X)
             /\ \A r \in Rows(call'.X) : \A j \in Cols(call'.X) :
                   call'.out[r][j] =
                      VAdd(VMul(call'.gamma[j],
                                VDiv(VSub(call'.X[r][j], moving_mean[call'.scope_name][j]),
                                     VSqrt(VAdd(moving_var[call'.scope_name][j], call'.eps)))),
                           call'.beta[j])]_vars

\* C2 witness: a testing-mode call has returned a value that is not the one
\* the statistics of its own batch give.
C2_Witness ==
    /\ call.fn = "batch_norm" /\ ~call.is_training /\ call.status = "ok"
    /\ call.out # pure_batch_norm(call.X, call.gamma, call.beta, call.eps)

\* C3: the first training-mode call under a fresh scope_name stores the
\* batch's per-column mean and population variance, whatever the momentum.
C3_SeedIsBatchStats ==
    [][(IsCall /\ call'.is_training /\ call'.scope_name \notin DOMAIN moving_mean)
          => /\ call'.status = "ok"
             /\ moving_mean'[call'.scope_name] = MeanVec(call'.X)
             /\ moving_var'[call'.scope_name] = PopVarVec(call'.X)]_vars

\* C3 witness: the very first call was a training-mode one with the default
\* momentum 0.9, and the store holds its batch mean.
C3_Witness ==
    /\ ncalls = 1 /\ call.fn = "batch_norm" /\ call.is_training
    /\ call.momentum = DefaultMomentum
    /\ moving_mean[call.scope_name] = MeanVec(call.X)
    /\ moving_var[call.scope_name] = PopVarVec(call.X)

\* C4: a training-mode call under a scope_name already in the store sets
\* RunningMean = m * RunningMean + (1 - m) * mean, and the same for the
\* variance; and when the first two calls are training-mode calls under one
\* scope_name, the running mean is then m * mean1 + (1 - m) * mean2.
C4_BlendRule ==
    [][(IsCall /\ call'.is_training /\ call'.scope_name \in DOMAIN moving_mean)
          => LET s == call'.scope_name
                 m == call'.momentum
             IN  /\ \A j \in Cols(call'.X) :
                       /\ moving_mean'[s][j] = Mix(m, moving_mean[s][j], ColMean(call'.X, j))
                       /\ moving_var'[s][j] = Mix(m, moving_var[s][j], PopVar(call'.X, j))
                 /\ (ncalls = 1 /\ call.fn = "batch_norm" /\ call.is_training
                        /\ call.scope_name = s)
                       => \A j \in Cols(call'.X) :
                             moving_mean'[s][j] =
                                Mix(m, ColMean(call.X, j), ColMean(call'.X, j))]_vars

\* C4 witness: two calls were made, the second a training-mode call with
\* momentum 0.9 whose scope_name the first had seeded with another mean.
C4_Witness ==
    /\ ncalls = 2 /\ call.fn = "batch_norm" /\ call.is_training
    /\ call.momentum = DefaultMomentum
    /\ count[call.scope_name] = 2
    /\ \A b \in blended[call.scope_name] : b[1]
    /\ Cardinality(blended[call.scope_name]) = 2

\* C5: a testing-mode call under a scope_name no training-mode call has
\* seeded raises (NameError when the globals do not exist, KeyError when they
\* hold only other scope_names), returns nothing and stores nothing.
C5_UnseededInferenceFails ==
    [][(IsCall /\ ~call'.is_training /\ ~Seeded(call'.scope_name))
          => /\ call'.status = IF defined THEN "KeyError" ELSE "NameError"
             /\ call'.out = <<>>
             /\ UNCHANGED <<defined, moving_mean, moving_var>>]_vars

\* C5 witness: a testing-mode call has raised KeyError while the store held
\* another scope_name.
C5_Witness ==
    /\ call.fn = "batch_norm" /\ ~call.is_training /\ call.status = "KeyError"
    /\ defined /\ DOMAIN moving_mean # {}
    /\ call.scope_name \notin DOMAIN moving_mean

\* C6: a training-mode call completes whatever the store holds, and returns
\* what pure_batch_norm returns for the same X, gamma, beta and eps.
C6_TrainingIgnoresStore ==
    (call.fn = "batch_norm" /\ call.is_training)
       => /\ call.status = "ok"
          /\ call.out = pure_batch_norm(call.X, call.gamma, call.beta, call.eps)

\* C6 witness: a training-mode call has completed under a scope_name whose
\* stored mean differs from the mean of the call's batch.
C6_Witness ==
    /\ call.fn = "batch_norm" /\ call.is_training /\ call.status = "ok"
    /\ moving_mean[call.scope_name] # MeanVec(call.X)
    /\ ncalls >= 2

\* An element of the value returned, gamma * (n / sqrt(rad)) + beta: its parts.
OutNum(t) == t[2][3][2]
OutRad(t) == t[2][3][3][2]

\* The call returned the transform of its own batch with gamma = 1, beta = 0.
UnitTransform ==
    /\ call.fn \in {"pure_batch_norm", "batch_norm"}
    /\ call.is_training /\ call.status = "ok"
    /\ call.gamma = Ones /\ call.beta = Zeros

RECURSIVE SumNum(_, _, _)
SumNum(out, j, n) ==
    IF n = 0 THEN Zero ELSE QAdd(SumNum(out, j, n - 1), OutNum(out[n][j]))

RECURSIVE SumSqNum(_, _, _)
SumSqNum(out, j, n) ==
    IF n = 0 THEN Zero
    ELSE QAdd(SumSqNum(out, j, n - 1), QMul(OutNum(out[n][j]), OutNum(out[n][j])))

\* Column j of the value returned, its elements being n_r / sqrt(rad): the
\* square of its mean, and its variance E[y^2] - E[y]^2.
OutMeanSq(out, j) ==
    LET m1 == QDiv(SumNum(out, j, Len(out)), Q(Len(out), 1))
    IN  QDiv(QMul(m1, m1), OutRad(out[1][j]))
OutVar(out, j) ==
    QSub(QDiv(QDiv(SumSqNum(out, j, Len(out)), Q(Len(out), 1)), OutRad(out[1][j])),
         OutMeanSq(out, j))

SameRad(out, j) == \A r \in Rows(out) : OutRad(out[r][j]) = OutRad(out[1][j])

\* | n / sqrt(rad) - k / 10000 | <= 1 / 10000, decided on the squares.
Near(t, k) ==
    LET n == OutNum(t)
        sq == QDiv(QMul(n, n), OutRad(t))
    IN  IF k = 0 THEN QLeq(sq, Q(1, 100000000))
        ELSE /\ (n[2] < 0) = (k < 0)
             /\ QLeq(Q((Abs(k) - 1) * (Abs(k) - 1), 100000000), sq)
             /\ QLeq(sq, Q((Abs(k) + 1) * (Abs(k) + 1), 100000000))

\* The documented result for A, in units of 1/10000.
Expected == <<<<-13887, 0>>, <<4629, -12247>>, <<9258, 12247>>>>

MatchesExample ==
    (UnitTransform /\ call.X = A /\ call.eps = DefaultEps)
       => \A r \in Rows(A) : \A j \in Cols(A) : Near(call.out[r][j], Expected[r][j])

Tolerance == Q(1, 1000)

\* C7 (as claimed): with gamma = 1 and beta = 0 every column of the training
\* output has mean 0 and variance 1 up to a small tolerance, for any batch;
\* and A gives the documented matrix.
C7_UnitVariance ==
    /\ UnitTransform =>
          \A j \in Cols(call.X) :
             /\ SameRad(call.out, j)
             /\ QLeq(OutMeanSq(call.out, j), QMul(Tolerance, Tolerance))
             /\ QLeq(QSub(One, Tolerance), OutVar(call.out, j))
             /\ QLeq(OutVar(call.out, j), QAdd(One, Tolerance))
    /\ MatchesExample

\* C7 (amended): with gamma = 1 and beta = 0 every column of the training
\* output has mean 0 and variance var / (var + eps), where var is the
\* population variance of the column of X: 0 for a constant column, and
\* within eps / var below 1 otherwise; and A gives the documented matrix.
C7_Normalized ==
    /\ UnitTransform =>
          \A j \in Cols(call.X) :
             LET v == PopVar(call.X, j)
                 w == OutVar(call.out, j)
             IN  /\ SameRad(call.out, j)
                 /\ OutMeanSq(call.out, j) = Zero
                 /\ w = QDiv(v, QAdd(v, call.eps))
                 /\ (v = Zero) => (w = Zero)
                 /\ (v # Zero) => /\ QLess(w, One)
                                  /\ QLeq(QSub(One, QDiv(call.eps, v)), w)
    /\ MatchesExample

\* C7 witness: the transform of A with gamma = 1, beta = 0, eps = 1e-5 was
\* computed, and its first element is the documented -1.3887.
C7_Witness ==
    /\ UnitTransform /\ call.X = A /\ call.eps = DefaultEps
    /\ Near(call.out[1][1], -13887)

\* The transform of a batch with a constant column was computed as well, and
\* that column of the output has variance 0.
C7_WitnessConstantColumn ==
    /\ UnitTransform
    /\ \E j \in Cols(call.X) : PopVar(call.X, j) = Zero /\ OutVar(call.out, j) = Zero

\* C10: with momentum in [0, 1], every component of a stored running mean
\* lies between the smallest and the largest batch mean blended into it, and
\* every component of a stored running variance is non-negative, so that
\* RunningVar + eps is positive for eps > 0.
C10_RunningStatsBounded ==
    \A s \in DOMAIN moving_mean :
       /\ s \in DOMAIN moving_var
       /\ blended[s] # {}
       /\ \A j \in 1 .. Len(moving_mean[s]) :
             /\ \E lo \in blended[s] : QLeq(lo[2][j], moving_mean[s][j])
             /\ \E hi \in blended[s] : QLeq(moving_mean[s][j], hi[2][j])
             /\ QLeq(Zero, moving_var[s][j])
             /\ \A ab \in Affines : QLess(Zero, QAdd(moving_var[s][j], ab[3]))

\* C10 witness: a running mean lies strictly between two of the batch means
\* blended into it.
C10_Witness ==
    \E s \in DOMAIN moving_mean : \E j \in 1 .. Len(moving_mean[s]) :
       /\ \E lo \in blended[s] : QLess(lo[2][j], moving_mean[s][j])
       /\ \E hi \in blended[s] : QLess(moving_mean[s][j], hi[2][j])
       /\ count[s] >= 3

----------------------------------------------------------------------------
(* Properties of the training loop, under SpecLoop.                        *)

Evaluating == phase \in {"eval_test", "eval_train"}

\* C8 (as claimed): no step of an evaluate_accuracy pass changes moving_mean
\* or moving_var, so that every batch of the pass, and the pass that follows
\* it, is normalized with the statistics the training batches left.
C8_EvaluationLeavesStats ==
    [][Evaluating => (moving_mean' = moving_mean /\ moving_var' = moving_var)]_vars

\* The entries of every scope_name but s are kept, and no key but s is added.
OthersKept(s) ==
    /\ DOMAIN moving_mean' \subseteq DOMAIN moving_mean \cup {s}
    /\ DOMAIN moving_var' \subseteq DOMAIN moving_var \cup {s}
    /\ \A k \in DOMAIN moving_mean \ {s} :
          k \in DOMAIN moving_mean' /\ moving_mean'[k] = moving_mean[k]
    /\ \A k \in DOMAIN moving_var \ {s} :
          k \in DOMAIN moving_var' /\ moving_var'[k] = moving_var[k]
    /\ \A k \in Scopes \ {s} : count'[k] = count[k]

\* C9: a batch_norm call under one scope_name leaves the entries of every
\* other scope_name as they were; a call of net makes one batch_norm call
\* under 'bn1' and one under 'bn2' and touches no other key; and moving_mean
\* and moving_var always have the same keys.
C9_PerScopeIsolation ==
    /\ [][/\ (pc = "net1") => (OthersKept("bn1") /\ count'["bn1"] = count["bn1"] + 1)
          /\ (pc = "net2") => (OthersKept("bn2") /\ count'["bn2"] = count["bn2"] + 1)
          /\ (pc \notin {"net1", "net2"})
                => UNCHANGED <<moving_mean, moving_var, count>>]_vars
    /\ [](/\ DOMAIN moving_mean = DOMAIN moving_var
          /\ DOMAIN moving_mean \subseteq {"bn1", "bn2"}
          /\ count["bn1"] = count["bn2"] + (IF pc = "net2" THEN 1 ELSE 0)
          /\ (count["bn2"] > 0) => (DOMAIN moving_mean = {"bn1", "bn2"}))

\* C9 witness: the first-layer call of a later net call has been made, in
\* testing mode, while the store held the entry of 'bn2'.
C9_Witness ==
    /\ pc = "net2" /\ Evaluating
    /\ count["bn1"] = count["bn2"] + 1 /\ count["bn2"] >= 2
    /\ DOMAIN moving_mean = {"bn1", "bn2"}

====
